---- MODULE Spec2Model ----
(***************************************************************************)
(* create-worktree.sh (src/src/utils/create-worktree.sh) as bash runs it:  *)
(* the shell reads one complete command at a time from the file, executes   *)
(* it, and reads the next.  The script text is data (ScriptKind and the     *)
(* per-line operators below); the actions are the shell's read and execute  *)
(* steps applied to that text.                                              *)
(***************************************************************************)
EXTENDS Integers, Sequences, FiniteSets, TLC

\* ------------------------------------------------------------------ bounds
MaxArgs == 2

\* The argument words a run may be given, and the statuses an external
\* command (git, cd, claude) may end with.
ArgWords == {"", "feat", "fix"}
ExitStatuses == {0, 1}
Modes == {"exec", "source"}

VARIABLES
  mode,     \* "exec": bash create-worktree.sh ...; "source": source create-worktree.sh ...
  args,     \* the positional parameters $1 .. $#
  phase,    \* "parse": the shell reads the next command; "run": it executes; "done"
  pc,       \* the line the shell reads or executes next
  cmdEnd,   \* the last line of the command being executed
  status,   \* $?, and the exit status once phase = "done"
  shvars,   \* the shell variables the script has assigned
  out,      \* lines written to standard output: <<fixed text, expanded operand>>
  err,      \* lines written to standard error
  calls,    \* external commands invoked, in order
  cwd,      \* the working directory
  trace     \* the lines whose command has been executed, in order

vars == <<mode, args, phase, pc, cmdEnd, status, shvars, out, err, calls, cwd, trace>>

\* ------------------------------------------------------------ script text
NLines == 16

\* The kind of each line of the file.
ScriptKind ==
  << "comment",   \*  1  #!/bin/bash
     "if",        \*  2  if [ $# -eq 0]; then
     "echo",      \*  3     echo "Error: Worktree name needed!"
     "return",    \*  4     return 1
     "fi",        \*  5  fi
     "assign",    \*  6  ARGUMENT=$1
     "assign",    \*  7  WORKTREE_PATH="../${...}$ARGUMENT"
     "comment",   \*  8  # create worktree, ...
     "if",        \*  9  if git worktree add "$WORKTREE_PATH"; then
     "echo",      \* 10     echo "Worktree added successfully: $WORKTREE_PATH"
     "cd",        \* 11     cd "WORKTREE_PATH" || return 1
     "echo",      \* 12     echo "Directory change succeeded: $(pwd)"
     "claude",    \* 13     claude
     "else",      \* 14  else
     "echo",      \* 15     echo "Worktree creation failed"
     "return" >>  \* 16     return 1

KindAt(i) == IF i \in 1..NLines THEN ScriptKind[i] ELSE "eof"

\* Line 2, between "if" and ";": the characters of the guard's test command.
GuardTestText == << "[", " ", "$", "#", " ", "-", "e", "q", " ", "0", "]" >>

\* Line 7: the name between "${" and "}", one element per character (four
\* Hangul syllables, given by code point).
FolderParamName == << "U+D3F4", "U+B354", "U+C774", "U+B984" >>

\* Line 11: the operand of cd, a quoted word with no "$" in it.
CdTarget == "WORKTREE_PATH"

ErrorNameNeeded == "Error: Worktree name needed!"
MsgAddedPrefix == "Worktree added successfully: "
MsgCreationFailed == "Worktree creation failed"
MsgCdPrefix == "Directory change succeeded: "

\* ------------------------------------------------------------ the shell
\* Word splitting: blanks separate words; nothing else does.
RECURSIVE SplitWords(_, _, _)
SplitWords(text, cur, acc) ==
  IF text = <<>>
    THEN IF cur = <<>> THEN acc ELSE Append(acc, cur)
    ELSE IF Head(text) = " "
      THEN SplitWords(Tail(text), <<>>, IF cur = <<>> THEN acc ELSE Append(acc, cur))
      ELSE SplitWords(Tail(text), Append(cur, Head(text)), acc)

RECURSIVE DetachBracket(_)
DetachBracket(text) ==
  IF text = <<>> THEN <<>>
  ELSE IF Head(text) = "]" THEN <<" ", "]">> \o DetachBracket(Tail(text))
  ELSE <<Head(text)>> \o DetachBracket(Tail(text))

\* Words as a shell that took "]" for a token of its own would split them.
WordsBracketToken(text) == SplitWords(DetachBracket(text), <<>>, <<>>)

Words(text) == SplitWords(text, <<>>, <<>>)

DigitChars == << "0", "1", "2", "3", "4", "5", "6", "7", "8", "9" >>

RECURSIVE Decimal(_)
Decimal(n) == IF n < 10 THEN <<DigitChars[n + 1]>>
              ELSE Decimal(n \div 10) \o <<DigitChars[(n % 10) + 1]>>

\* Parameter expansion of one word of the guard's test: $# is the number of
\* positional parameters.
ExpandWord(w) == IF w = <<"$", "#">> THEN Decimal(Len(args)) ELSE w

IsDigit(c) == \E d \in 1..10 : DigitChars[d] = c
IsInteger(w) == w # <<>> /\ \A i \in 1..Len(w) : IsDigit(w[i])
DigitValue(c) == (CHOOSE d \in 1..10 : DigitChars[d] = c) - 1

RECURSIVE ToInt(_)
ToInt(w) == IF w = <<>> THEN 0
            ELSE 10 * ToInt(SubSeq(w, 1, Len(w) - 1)) + DigitValue(w[Len(w)])

\* The leading digits of a word (what atoi reads).
RECURSIVE LeadingDigits(_)
LeadingDigits(w) == IF w = <<>> \/ ~IsDigit(Head(w)) THEN <<>>
                    ELSE <<Head(w)>> \o LeadingDigits(Tail(w))

\* A "[" that neither asks for the closing "]" nor rejects trailing garbage
\* in a number.
TestBuiltinLenient(argv) ==
  IF Len(argv) >= 3 /\ argv[2] = <<"-", "e", "q">>
    THEN [status |-> IF ToInt(LeadingDigits(argv[1])) = ToInt(LeadingDigits(argv[3]))
                       THEN 0 ELSE 1,
          msg |-> ""]
    ELSE [status |-> 2, msg |-> "[: bad expression"]

\* The "[" builtin on its arguments (the words after "["): the last one must
\* be "]"; what is before it is the expression.
TestBuiltin(argv) ==
  IF argv = <<>> \/ argv[Len(argv)] # <<"]">>
    THEN [status |-> 2, msg |-> "[: missing ]"]
    ELSE LET e == SubSeq(argv, 1, Len(argv) - 1) IN
      IF Len(e) = 3 /\ e[2] = <<"-", "e", "q">>
        THEN IF IsInteger(e[1]) /\ IsInteger(e[3])
               THEN [status |-> IF ToInt(e[1]) = ToInt(e[3]) THEN 0 ELSE 1, msg |-> ""]
               ELSE [status |-> 2, msg |-> "[: integer expression expected"]
        ELSE [status |-> 2, msg |-> "[: bad expression"]

\* Truth as C has it: non-zero is true.
CondTrueNonZero(s) == s # 0

\* "if c; then": the then-part runs when c ends with status zero.
CondTrue(s) == s = 0

\* The guard's test as the shell runs it: split, expand, hand to "[".
GuardTest ==
  LET ws == Words(GuardTestText)
      argv == [i \in 1..(Len(ws) - 1) |-> ExpandWord(ws[i + 1])]
  IN TestBuiltin(argv)

\* A name usable in ${name}: ASCII letters, digits and "_", not starting
\* with a digit.
IdentStart ==
  { "a", "b", "c", "d", "e", "f", "g", "h", "i", "j", "k", "l", "m",
    "n", "o", "p", "q", "r", "s", "t", "u", "v", "w", "x", "y", "z",
    "A", "B", "C", "D", "E", "F", "G", "H", "I", "J", "K", "L", "M",
    "N", "O", "P", "Q", "R", "S", "T", "U", "V", "W", "X", "Y", "Z", "_" }
IsIdentifier(name) ==
  /\ name # <<>>
  /\ name[1] \in IdentStart
  /\ \A i \in 1..Len(name) : name[i] \in IdentStart \/ IsDigit(name[i])

\* The value of a shell variable; an unset one expands to the empty string.
Value(name) == IF name \in DOMAIN shvars THEN shvars[name] ELSE ""
Assign(name, v) ==
  [n \in (DOMAIN shvars) \cup {name} |-> IF n = name THEN v ELSE shvars[n]]

Arg1 == IF Len(args) >= 1 THEN args[1] ELSE ""

\* ------------------------------------------------------------ the parser
RECURSIVE SkipComments(_)
SkipComments(i) == IF KindAt(i) = "comment" THEN SkipComments(i + 1) ELSE i

RECURSIVE FindFi(_, _)
FindFi(i, depth) ==
  IF i > NLines THEN 0
  ELSE IF KindAt(i) = "if" THEN FindFi(i + 1, depth + 1)
  ELSE IF KindAt(i) = "fi"
    THEN IF depth = 0 THEN i ELSE FindFi(i + 1, depth - 1)
  ELSE FindFi(i + 1, depth)

\* A parser that lets the end of the file close an open "if".
MatchingFiOrEof(i) == IF FindFi(i + 1, 0) = 0 THEN NLines + 1 ELSE FindFi(i + 1, 0)

\* The line of the "fi" that closes the "if" of line i; 0 when the file ends
\* first.
MatchingFi(i) == FindFi(i + 1, 0)

RECURSIVE FindElse(_, _, _)
FindElse(i, last, depth) ==
  IF i >= last THEN 0
  ELSE IF KindAt(i) = "if" THEN FindElse(i + 1, last, depth + 1)
  ELSE IF KindAt(i) = "fi" THEN FindElse(i + 1, last, depth - 1)
  ELSE IF KindAt(i) = "else" /\ depth = 0 THEN i
  ELSE FindElse(i + 1, last, depth)

\* The line of the "else" of the "if" of line i whose last line is `last`;
\* 0 when it has none.
ElseOf(i, last) == FindElse(i + 1, last, 0)

\* Where control goes after the simple command of line p.
After(p) ==
  IF p >= cmdEnd \/ KindAt(p + 1) \in {"else", "fi", "eof"}
    THEN [phase |-> "parse", pc |-> cmdEnd + 1]
    ELSE [phase |-> "run", pc |-> p + 1]

RECURSIVE AllSeqs(_)
AllSeqs(n) == IF n = 0 THEN {<<>>}
              ELSE AllSeqs(n - 1) \cup
                   {Append(s, w) : s \in {t \in AllSeqs(n - 1) : Len(t) = n - 1}, w \in ArgWords}

\* ------------------------------------------------------------ the run
Init ==
  /\ mode \in Modes
  /\ args \in AllSeqs(MaxArgs)
  /\ phase = "parse"
  /\ pc = 1
  /\ cmdEnd = 0
  /\ status = 0
  /\ shvars = [n \in {} |-> ""]
  /\ out = <<>>
  /\ err = <<>>
  /\ calls = <<>>
  /\ cwd = "."
  /\ trace = <<>>

\* The shell reads the next complete command.  An "if" with no "fi" before
\* the end of the file is a syntax error, reported at the line after the
\* last one, and ends the run with status 2.
ReadCommand ==
  /\ phase = "parse"
  /\ LET n == SkipComments(pc) IN
       IF n > NLines
         THEN /\ phase' = "done"
              /\ UNCHANGED <<pc, cmdEnd, status, err>>
       ELSE IF KindAt(n) = "if" /\ MatchingFi(n) = 0
         THEN /\ phase' = "done"
              /\ pc' = NLines + 1
              /\ status' = 2
              /\ err' = Append(err, "syntax error: unexpected end of file")
              /\ UNCHANGED cmdEnd
       ELSE /\ phase' = "run"
            /\ pc' = n
            /\ cmdEnd' = IF KindAt(n) = "if" THEN MatchingFi(n) ELSE n
            /\ UNCHANGED <<status, err>>
  /\ UNCHANGED <<mode, args, shvars, out, calls, cwd, trace>>

\* The condition of an "if": the "[" builtin on line 2, git on line 9.  A
\* zero status runs the then-part; otherwise the else-part, and with no
\* else-part the "if" is over with status 0.
ExecIf ==
  /\ phase = "run"
  /\ KindAt(pc) = "if"
  /\ \E st \in ExitStatuses :
       LET isGuard == (pc = 2)
           res == IF isGuard THEN GuardTest ELSE [status |-> st, msg |-> ""]
           els == ElseOf(pc, cmdEnd)
       IN /\ calls' = IF isGuard THEN calls
                      ELSE Append(calls, <<"git", "worktree", "add", Value("WORKTREE_PATH")>>)
          /\ err' = IF res.msg = "" THEN err ELSE Append(err, res.msg)
          /\ IF CondTrue(res.status)
               THEN /\ pc' = pc + 1
                    /\ status' = 0
                    /\ phase' = "run"
             ELSE IF els # 0
               THEN /\ pc' = els + 1
                    /\ status' = res.status
                    /\ phase' = "run"
             ELSE /\ pc' = cmdEnd + 1
                  /\ status' = 0
                  /\ phase' = "parse"
  /\ trace' = Append(trace, pc)
  /\ UNCHANGED <<mode, args, cmdEnd, shvars, out, cwd>>

\* "return n": ends a sourced script with status n; in an executed script
\* it is an error (status 2) and the script goes on.
ReturnTo(p, code) ==
  IF mode = "source"
    THEN [phase |-> "done", pc |-> p, status |-> code, msg |-> ""]
    ELSE [phase |-> After(p).phase, pc |-> After(p).pc, status |-> 2,
          msg |-> "return: can only return from a function or sourced script"]

\* One simple command of the script.
ExecSimple ==
  /\ phase = "run"
  /\ KindAt(pc) \in {"assign", "echo", "return", "cd", "claude"}
  /\ \E st \in ExitStatuses :
       LET k == KindAt(pc)
           nxt == After(pc)
           ret == ReturnTo(pc, 1)
       IN CASE k = "assign" /\ pc = 6 ->
                 /\ shvars' = Assign("ARGUMENT", Arg1)
                 /\ status' = 0
                 /\ phase' = nxt.phase /\ pc' = nxt.pc
                 /\ UNCHANGED <<out, err, calls, cwd>>
            [] k = "assign" /\ pc = 7 ->
                 /\ IF IsIdentifier(FolderParamName)
                      THEN /\ shvars' = Assign("WORKTREE_PATH",
                                               "../" \o Value("FOLDER") \o Value("ARGUMENT"))
                           /\ status' = 0
                           /\ err' = err
                      ELSE /\ shvars' = shvars
                           /\ status' = 1
                           /\ err' = Append(err, "bad substitution")
                 /\ phase' = nxt.phase /\ pc' = nxt.pc
                 /\ UNCHANGED <<out, calls, cwd>>
            [] k = "echo" ->
                 /\ out' = Append(out,
                      CASE pc = 3 -> <<ErrorNameNeeded, "">>
                        [] pc = 10 -> <<MsgAddedPrefix, Value("WORKTREE_PATH")>>
                        [] pc = 12 -> <<MsgCdPrefix, cwd>>
                        [] OTHER -> <<MsgCreationFailed, "">>)
                 /\ status' = 0
                 /\ phase' = nxt.phase /\ pc' = nxt.pc
                 /\ UNCHANGED <<shvars, err, calls, cwd>>
            [] k = "return" ->
                 /\ phase' = ret.phase /\ pc' = ret.pc /\ status' = ret.status
                 /\ err' = IF ret.msg = "" THEN err ELSE Append(err, ret.msg)
                 /\ UNCHANGED <<shvars, out, calls, cwd>>
            [] k = "cd" ->
                 /\ calls' = Append(calls, <<"cd", CdTarget>>)
                 /\ IF st = 0
                      THEN /\ cwd' = cwd \o "/" \o CdTarget
                           /\ status' = 0
                           /\ phase' = nxt.phase /\ pc' = nxt.pc
                           /\ err' = err
                      ELSE /\ cwd' = cwd
                           /\ phase' = ret.phase /\ pc' = ret.pc /\ status' = ret.status
                           /\ err' = Append(err, "cd: WORKTREE_PATH: No such file or directory")
                                       \o (IF ret.msg = "" THEN <<>> ELSE <<ret.msg>>)
                 /\ UNCHANGED <<shvars, out>>
            [] OTHER ->
                 /\ calls' = Append(calls, <<"claude">>)
                 /\ status' = st
                 /\ phase' = nxt.phase /\ pc' = nxt.pc
                 /\ UNCHANGED <<shvars, out, err, cwd>>
  /\ trace' = Append(trace, pc)
  /\ UNCHANGED <<mode, args, cmdEnd>>

Next == ReadCommand \/ ExecIf \/ ExecSimple

Spec == Init /\ [][Next]_vars

\* ------------------------------------------------------------ properties
Printed(text) == \E i \in 1..Len(out) : out[i][1] = text
Executed(line) == \E i \in 1..Len(trace) : trace[i] = line
Reported(msg) == \E i \in 1..Len(err) : err[i] = msg
CallNames == [i \in 1..Len(calls) |-> calls[i][1]]
SyntaxErrorReported == Reported("syntax error: unexpected end of file")

\* C1: a run started with zero arguments never outputs "Error: Worktree name
\* needed!": the guard body (lines 3-4) is not reached.
C1_NoNameNeededMessageOnZeroArgs ==
  Len(args) = 0 => ~Printed(ErrorNameNeeded) /\ ~Executed(3) /\ ~Executed(4)

\* A zero-argument run that has evaluated the guard and run to its end.
C1_Witness == Len(args) = 0 /\ Executed(2) /\ phase = "done"

\* C2 as stated: the script fails at parse time, before any statement is
\* executed: no test evaluation, no variable assignment, no external command.
C2_FailsBeforeAnyStatement ==
  trace = <<>> /\ DOMAIN shvars = {} /\ calls = <<>>

\* C2 amended: the missing space makes the guard's test fail when it is
\* evaluated (status 2, "missing ]"), for every argument count; the script's
\* syntax error (the unterminated if of line 9) is reported only after the
\* test and the statements of lines 6-7 have been executed, and before any
\* external command.
C2_GuardFailsAtRunTime ==
  /\ calls = <<>>
  /\ Executed(2) => GuardTest.status = 2 /\ Reported("[: missing ]")
  /\ SyntaxErrorReported =>
       /\ trace = <<2, 6, 7>>
       /\ "ARGUMENT" \in DOMAIN shvars
       /\ status = 2

\* A one-argument run in which the test was evaluated, ARGUMENT assigned, and
\* the syntax error then reported.
C2_Witness ==
  /\ Len(args) = 1
  /\ SyntaxErrorReported
  /\ Executed(2)
  /\ "ARGUMENT" \in DOMAIN shvars /\ shvars["ARGUMENT"] = args[1]

C9_GuardRejectsNothing ==
  /\ GuardTest.status # 0
  /\ ~Executed(3) /\ ~Executed(4)
  /\ \E n \in 0..3 : trace = SubSeq(<<2, 6, 7>>, 1, n)
  /\ phase = "done" => trace = <<2, 6, 7>>
  /\ Len(args) = 0 /\ Executed(6) =>
       "ARGUMENT" \in DOMAIN shvars /\ shvars["ARGUMENT"] = ""

\* A zero-argument run past the guard, with ARGUMENT assigned the empty string.
C9_Witness ==
  /\ Len(args) = 0
  /\ Executed(7)
  /\ "ARGUMENT" \in DOMAIN shvars /\ shvars["ARGUMENT"] = ""

\* C10: the if of line 9 has no fi, so its block is never executed: no run
\* invokes git worktree add, cd or claude, and neither "Worktree added
\* successfully" nor "Worktree creation failed" is printed.
C10_BlockNeverExecuted ==
  /\ calls = <<>>
  /\ ~Printed(MsgAddedPrefix) /\ ~Printed(MsgCreationFailed)
  /\ \A l \in 9..NLines : ~Executed(l)

\* A run with an argument that has ended on the syntax error of the
\* unterminated if, after lines 2, 6 and 7.
C10_Witness ==
  /\ Len(args) = MaxArgs
  /\ phase = "done" /\ status = 2 /\ SyntaxErrorReported
  /\ Executed(7)

\* C11: the path handed to git worktree add is "../" followed by the value
\* of the variable named on line 7 and by the first argument: with that
\* variable unset, once line 7 has been executed WORKTREE_PATH is "../"
\* followed by $1, whatever the later arguments are, and a run that has
\* ended has passed exactly that path to git worktree add.
C11_PathIsParentPlusArgument ==
  /\ Executed(7) =>
       "WORKTREE_PATH" \in DOMAIN shvars /\ shvars["WORKTREE_PATH"] = "../" \o Arg1
  /\ phase = "done" =>
       \E i \in 1..Len(calls) : calls[i] = <<"git", "worktree", "add", "../" \o Arg1>>

====
